---- MODULE Spec2Model ----
(***************************************************************************)
(* Model of the two Streamlit chat front ends of cgiar-ppu/type2-chatbot:  *)
(*   src/app.py        (plain chat,        variant = "app")                *)
(*   src/chart_app.py  (chat + bar chart,  variant = "chart")              *)
(*                                                                         *)
(* One session is modelled: st.session_state (messages, thread_id), the    *)
(* process environment (OPENAI_API_KEY), the remote Assistants service     *)
(* (threads and the run in flight) and the position of the script inside   *)
(* the blocking poll loop of call_assistant.                               *)
(*                                                                         *)
(* A Python str is a sequence of pieces (TLA+ strings); "" is << >> and    *)
(* concatenation is \o.  The chart extractor works on single characters,   *)
(* so its inputs are sequences of one-character strings.                   *)
(* Remote calls are assumed to answer (no transport fault is modelled).    *)
(***************************************************************************)
EXTENDS Integers, Sequences, FiniteSets, TLC

VARIABLES
    variant,          \* which front end runs: "app" or "chart"
    api_key,          \* os.getenv("OPENAI_API_KEY") is set
    messages,         \* st.session_state.messages
    thread_id,        \* st.session_state.thread_id (NoThread: key not in session_state)
    threads,          \* remote: threads[id] is the list of messages of thread id
    run,              \* remote: the latest run, [thread, status]
    pc,               \* "idle": waiting for chat input; "poll": inside the poll loop
    user_input,       \* the submission being processed (or the last one)
    run_status,       \* run.status as last read by call_assistant ("none": no run made)
    polls,            \* number of runs.retrieve calls of this send (saturates at MaxPolls)
    calls,            \* remote calls made while processing the current submission
    outcome,          \* how call_assistant ended: "none", "returned", "raised"
    assistant_reply,  \* the value call_assistant returned
    submissions,      \* every user_input submitted so far, in order
    text,             \* extract_chart_data: its argument
    rows              \* extract_chart_data: its result ("pending" before the call)

chatVars == <<variant, api_key, messages, thread_id, threads, run, pc, user_input,
              run_status, polls, calls, outcome, assistant_reply, submissions>>
vars == <<variant, api_key, messages, thread_id, threads, run, pc, user_input,
          run_status, polls, calls, outcome, assistant_reply, submissions, text, rows>>

----------------------------------------------------------------------------
(* Bounds *)
MaxSubmissions == 2
MaxPolls == 2
MaxTextLen == 7

----------------------------------------------------------------------------
(* Values *)

NoThread == 0

Variants == {"app", "chart"}

Terminal == {"completed", "failed", "cancelled", "expired"}

\* st.chat_input returns a non-empty string (the flow is guarded by `if user_input`)
UserTexts == {<<"hello">>, <<"rice yield?">>}

Min(a, b) == IF a < b THEN a ELSE b

Last(s) == s[Len(s)]

\* content blocks of a remote message
TextBlock(v) == [type |-> "text", value |-> v]
ImageFileBlock == [type |-> "image_file", value |-> << >>]
ImageUrlBlock == [type |-> "image_url", value |-> << >>]

\* what the remote assistant may post as its reply when a run completes
Replies ==
    { <<TextBlock(<<"r1">>)>>,
      <<TextBlock(<<"r1">>), TextBlock(<<"r2">>)>>,
      <<ImageFileBlock, TextBlock(<<"r1">>)>>,
      <<TextBlock(<<"r1">>), ImageUrlBlock>> }

Message(role, content) == [role |-> role, content |-> content]

Call(by, op, thread, content) ==
    [by |-> by, op |-> op, thread |-> thread, content |-> content]

----------------------------------------------------------------------------
(* Remote service primitives *)

\* client.beta.threads.messages.create(thread_id, role="user", content=str):
\* the string becomes one text block of a new user message
AddUserTurn(thr, id, content) ==
    [thr EXCEPT ![id] = Append(@, Message("user", <<TextBlock(content)>>))]

\* client.beta.threads.messages.list(thread_id, order="desc", limit=1).data
ListLatest(thr, id) ==
    IF Len(thr[id]) = 0 THEN << >> ELSE <<Last(thr[id])>>

----------------------------------------------------------------------------
(* Pure helpers of the front ends *)

\* get_client without the `if not api_key` test
get_client_unchecked(key) == TRUE

get_client(key) == key

UserMessages(msgs) == SelectSeq(msgs, LAMBDA m : m.role = "user")

RECURSIVE Replay(_, _, _)
Replay(thr, id, msgs) ==
    IF msgs = << >> THEN thr
    ELSE Replay(AddUserTurn(thr, id, msgs[1].content), id, Tail(msgs))

ReplayCalls(id, msgs) ==
    [i \in 1..Len(msgs) |->
        Call("ensure_thread", "messages.create", id, msgs[i].content)]

\* ensure_thread without the `if msg["role"] == "user"` test
ensure_thread_replay_all(tid, thr, msgs) ==
    IF tid # NoThread
    THEN [thread_id |-> tid, threads |-> thr, calls |-> << >>]
    ELSE LET id == Len(thr) + 1
             fresh == Append(thr, << >>)
         IN  [thread_id |-> id,
              threads |-> Replay(fresh, id, msgs),
              calls |-> <<Call("ensure_thread", "threads.create", id, << >>)>>
                            \o ReplayCalls(id, msgs)]

\* ensure_thread without the `if "thread_id" in st.session_state` test
ensure_thread_always_new(tid, thr, msgs) ==
    LET id == Len(thr) + 1
        fresh == Append(thr, << >>)
        users == UserMessages(msgs)
    IN  [thread_id |-> id,
         threads |-> Replay(fresh, id, users),
         calls |-> <<Call("ensure_thread", "threads.create", id, << >>)>>
                       \o ReplayCalls(id, users)]

\* ensure_thread: the session's thread id, the remote threads and the calls made
ensure_thread(tid, thr, msgs) ==
    IF tid # NoThread
    THEN [thread_id |-> tid, threads |-> thr, calls |-> << >>]
    ELSE LET id == Len(thr) + 1
             fresh == Append(thr, << >>)
             users == UserMessages(msgs)
         IN  [thread_id |-> id,
              threads |-> Replay(fresh, id, users),
              calls |-> <<Call("ensure_thread", "threads.create", id, << >>)>>
                            \o ReplayCalls(id, users)]

\* the content call_assistant pushes for user_text
Prompt(v, user_text) ==
    IF v = "chart"
    THEN <<"\n    ">> \o user_text \o <<"\n    \n    If the user's request involves data that could be visualized, please include a bar chart. [...]">>
    ELSE user_text

\* a poll loop that gives up after two polls
LoopExitsCapped(status, n) == status \in Terminal \/ n >= 2

\* the loop condition of the poll loop, negated
LoopExits(status, n) == status \in Terminal

\* a status message that does not interpolate run.status
StatusMessageFixed(status) ==
    <<"Assistant run ended with status **", "failed", "**.">>

StatusMessage(status) ==
    <<"Assistant run ended with status **", status, "**.">>

NoResponse == <<"(No assistant response)">>

RECURSIVE Join(_)
Join(parts) ==
    IF parts = << >> THEN << >>
    ELSE IF Len(parts) = 1 THEN parts[1]
    ELSE parts[1] \o <<" ">> \o Join(Tail(parts))

RECURSIVE ContentParts(_)
ContentParts(content) ==
    IF content = << >> THEN << >>
    ELSE LET c == content[1]
             rest == ContentParts(Tail(content))
         IN  IF c.type = "text" THEN <<c.value>> \o rest
             ELSE IF c.type = "image_file" THEN <<<<"[Image]">>>> \o rest
             ELSE rest

\* the tail of call_assistant after a completed run: [raised, value]
LatestReply(v, data) ==
    IF data = << >> THEN [raised |-> FALSE, value |-> NoResponse]
    ELSE IF v = "chart"
         THEN [raised |-> FALSE, value |-> Join(ContentParts(data[1].content))]
         ELSE IF data[1].content = << >> \/ data[1].content[1].type # "text"
              THEN [raised |-> TRUE, value |-> << >>]
              ELSE [raised |-> FALSE, value |-> data[1].content[1].value]

----------------------------------------------------------------------------
(* Chart extractor (src/chart_app.py): strings are sequences of characters *)

ChartAlphabet == {"A", " ", ":", ",", "7"}

\* "Category A: 71, Category B: 5"
CategoryExample ==
    <<"C","a","t","e","g","o","r","y"," ","A",":"," ","7","1",",",
      " ","C","a","t","e","g","o","r","y"," ","B",":"," ","5">>

ChartTexts ==
    UNION {[1..n -> ChartAlphabet] : n \in 0..MaxTextLen} \cup {CategoryExample}

DigitChars == <<"0", "1", "2", "3", "4", "5", "6", "7", "8", "9">>

IsDigit(c) == \E i \in 1..10 : DigitChars[i] = c

IsSpace(c) == c \in {" ", "\t", "\n", "\r"}

DigitValue(c) == (CHOOSE i \in 1..10 : DigitChars[i] = c) - 1

\* index of the first ":" at or after s, or Len(t) + 1
RECURSIVE NextColon(_, _)
NextColon(t, s) ==
    IF s > Len(t) \/ t[s] = ":" THEN s ELSE NextColon(t, s + 1)

\* \s* from i: the index after the longest run of whitespace
RECURSIVE SkipSpaces(_, _)
SkipSpaces(t, i) ==
    IF i <= Len(t) /\ IsSpace(t[i]) THEN SkipSpaces(t, i + 1) ELSE i

\* \d+ from i: the index after the longest run of digits
RECURSIVE SkipDigits(_, _)
SkipDigits(t, i) ==
    IF i <= Len(t) /\ IsDigit(t[i]) THEN SkipDigits(t, i + 1) ELSE i

\* ([^:]+):\s*(\d+) tried at start s.  Every quantifier is greedy and the
\* character after each run is outside the run's class, so backtracking
\* finds nothing the greedy attempt misses.
MatchAt(t, s) ==
    LET k == NextColon(t, s)
        d == SkipSpaces(t, k + 1)
        e == SkipDigits(t, d)
    IN  IF k > s /\ k <= Len(t) /\ e > d
        THEN [found |-> TRUE, label |-> SubSeq(t, s, k - 1),
              value |-> SubSeq(t, d, e - 1), end |-> e]
        ELSE [found |-> FALSE, label |-> << >>, value |-> << >>, end |-> s]

\* re.findall(pattern, text): non-overlapping matches, scanning left to right
RECURSIVE FindAll(_, _)
FindAll(t, s) ==
    IF s > Len(t) THEN << >>
    ELSE LET m == MatchAt(t, s)
         IN  IF m.found THEN <<<<m.label, m.value>>>> \o FindAll(t, m.end)
             ELSE FindAll(t, s + 1)

\* str.strip()
RECURSIVE LStrip(_)
LStrip(s) == IF s # << >> /\ IsSpace(s[1]) THEN LStrip(Tail(s)) ELSE s

RECURSIVE RStrip(_)
RStrip(s) ==
    IF s # << >> /\ IsSpace(s[Len(s)]) THEN RStrip(SubSeq(s, 1, Len(s) - 1)) ELSE s

Strip(s) == RStrip(LStrip(s))

\* int(value) for a run of decimal digits
RECURSIVE ParseInt(_)
ParseInt(ds) ==
    IF ds = << >> THEN 0
    ELSE 10 * ParseInt(SubSeq(ds, 1, Len(ds) - 1)) + DigitValue(ds[Len(ds)])

\* extract_chart_data(text): the rows of the DataFrame, or None
extract_chart_data(t) ==
    LET matches == FindAll(t, 1)
    IN  IF matches = << >>
        THEN [state |-> "none", data |-> << >>]
        ELSE [state |-> "data",
              data |-> [i \in 1..Len(matches) |->
                          <<Strip(matches[i][1]), ParseInt(matches[i][2])>>]]

----------------------------------------------------------------------------
(* Initial state *)

InitChat ==
    /\ variant \in Variants
    /\ api_key \in BOOLEAN
    /\ messages = << >>
    /\ thread_id = NoThread
    /\ threads = << >>
    /\ run = [thread |-> NoThread, status |-> "none"]
    /\ pc = "idle"
    /\ user_input = << >>
    /\ run_status = "none"
    /\ polls = 0
    /\ calls = << >>
    /\ outcome = "none"
    /\ assistant_reply = << >>
    /\ submissions = << >>

Init ==
    /\ InitChat
    /\ text = << >>
    /\ rows = [state |-> "pending", data |-> << >>]

\* the chart extractor alone, applied to one text
ExtractInit ==
    /\ InitChat
    /\ variant = "chart"
    /\ ~api_key
    /\ text \in ChartTexts
    /\ rows = [state |-> "pending", data |-> << >>]

----------------------------------------------------------------------------
(* Actions *)

\* the environment gains OPENAI_API_KEY between two script runs
ConfigureKey ==
    /\ pc = "idle"
    /\ ~api_key
    /\ api_key' = TRUE
    /\ UNCHANGED <<variant, messages, thread_id, threads, run, pc, user_input,
                   run_status, polls, calls, outcome, assistant_reply, submissions,
                   text, rows>>

\* `if user_input:` when get_client() returns None
SubmitNoKey ==
    /\ pc = "idle"
    /\ Len(submissions) < MaxSubmissions
    /\ ~get_client(api_key)
    /\ \E t \in UserTexts :
          /\ user_input' = t
          /\ submissions' = Append(submissions, t)
          /\ messages' = messages \o <<Message("user", t), Message("assistant", << >>)>>
    /\ assistant_reply' = << >>
    /\ outcome' = "returned"
    /\ run_status' = "none"
    /\ polls' = 0
    /\ calls' = << >>
    /\ UNCHANGED <<variant, api_key, thread_id, threads, run, pc, text, rows>>

\* `if user_input:` with a client, up to the first test of the poll loop
SubmitSend ==
    /\ pc = "idle"
    /\ Len(submissions) < MaxSubmissions
    /\ get_client(api_key)
    /\ \E t \in UserTexts :
          LET history == Append(messages, Message("user", t))
              et == ensure_thread(thread_id, threads, history)
              pushed == Prompt(variant, t)
          IN  /\ user_input' = t
              /\ submissions' = Append(submissions, t)
              /\ messages' = history
              /\ thread_id' = et.thread_id
              /\ threads' = AddUserTurn(et.threads, et.thread_id, pushed)
              /\ run' = [thread |-> et.thread_id, status |-> "queued"]
              /\ calls' = et.calls \o
                    << Call("call_assistant", "messages.create", et.thread_id, pushed),
                       Call("call_assistant", "runs.create", et.thread_id, << >>) >>
    /\ run_status' = "queued"
    /\ polls' = 0
    /\ outcome' = "none"
    /\ assistant_reply' = << >>
    /\ pc' = "poll"
    /\ UNCHANGED <<variant, api_key, text, rows>>

\* call_assistant returns value; the main flow appends it to the history
Return(value) ==
    /\ messages' = Append(messages, Message("assistant", value))
    /\ assistant_reply' = value
    /\ outcome' = "returned"

\* call_assistant raises; the script run ends before the append
Raise ==
    /\ assistant_reply' = << >>
    /\ outcome' = "raised"
    /\ UNCHANGED messages

\* one turn of the poll loop: sleep, runs.retrieve, test; when the loop exits,
\* the rest of call_assistant and of the main flow
Poll ==
    /\ pc = "poll"
    /\ polls' = Min(polls + 1, MaxPolls)
    /\ run_status' = run.status
    /\ IF ~LoopExits(run.status, polls + 1)
       THEN /\ pc' = "poll"
            /\ UNCHANGED <<messages, calls, outcome, assistant_reply>>
       ELSE /\ pc' = "idle"
            /\ IF run.status # "completed"
               THEN /\ Return(StatusMessage(run.status))
                    /\ UNCHANGED calls
               ELSE LET r == LatestReply(variant, ListLatest(threads, thread_id))
                    IN  /\ calls' = Append(calls,
                               Call("call_assistant", "messages.list", thread_id, << >>))
                        /\ IF r.raised THEN Raise ELSE Return(r.value)
    /\ UNCHANGED <<variant, api_key, thread_id, threads, run, user_input, submissions,
                   text, rows>>

\* remote: the queued run starts
RunStart ==
    /\ run.status = "queued"
    /\ run' = [run EXCEPT !.status = "in_progress"]
    /\ UNCHANGED <<variant, api_key, messages, thread_id, threads, pc, user_input,
                   run_status, polls, calls, outcome, assistant_reply, submissions,
                   text, rows>>

\* remote: the run ends without success
RunEnd ==
    /\ run.status \in {"queued", "in_progress"}
    /\ \E s \in {"failed", "cancelled", "expired"} :
          run' = [run EXCEPT !.status = s]
    /\ UNCHANGED <<variant, api_key, messages, thread_id, threads, pc, user_input,
                   run_status, polls, calls, outcome, assistant_reply, submissions,
                   text, rows>>

\* remote: the run completes and posts an assistant message
RunCompleteReply ==
    /\ run.status = "in_progress"
    /\ run' = [run EXCEPT !.status = "completed"]
    /\ \E c \in Replies :
          threads' = [threads EXCEPT ![run.thread] = Append(@, Message("assistant", c))]
    /\ UNCHANGED <<variant, api_key, messages, thread_id, pc, user_input,
                   run_status, polls, calls, outcome, assistant_reply, submissions,
                   text, rows>>

\* remote: the run completes and posts nothing
RunCompleteSilent ==
    /\ run.status = "in_progress"
    /\ run' = [run EXCEPT !.status = "completed"]
    /\ UNCHANGED <<variant, api_key, messages, thread_id, threads, pc, user_input,
                   run_status, polls, calls, outcome, assistant_reply, submissions,
                   text, rows>>

Next ==
    \/ ConfigureKey
    \/ SubmitNoKey
    \/ SubmitSend
    \/ Poll
    \/ RunStart
    \/ RunEnd
    \/ RunCompleteReply
    \/ RunCompleteSilent

Spec == Init /\ [][Next]_vars

\* df, _ = extract_chart_data(text)
Extract ==
    /\ rows.state = "pending"
    /\ rows' = extract_chart_data(text)
    /\ UNCHANGED <<variant, api_key, messages, thread_id, threads, run, pc, user_input,
                   run_status, polls, calls, outcome, assistant_reply, submissions, text>>

ExtractNext == Extract

ExtractSpec == ExtractInit /\ [][ExtractNext]_vars

\* the poll loop is straight-line code: sleep, retrieve, test
FairSpec == Spec /\ WF_vars(Poll)

----------------------------------------------------------------------------
(* Properties *)

NonCompleted == {"failed", "cancelled", "expired"}

IsPrefix(s, t) == Len(s) <= Len(t) /\ SubSeq(t, 1, Len(s)) = s

Submitting == submissions' # submissions

\* C1: after N processed submissions the history holds 2N entries, a user
\* entry then an assistant entry per submission, in submission order, and no
\* earlier entry is ever removed or changed.
C1_HistoryPairs ==
    /\ [](pc = "idle" =>
            /\ Len(messages) = 2 * Len(submissions)
            /\ \A i \in 1..Len(submissions) :
                  /\ 2 * i <= Len(messages)
                  /\ messages[2 * i - 1] = Message("user", submissions[i])
                  /\ messages[2 * i].role = "assistant")
    /\ [][IsPrefix(messages, messages')]_vars

\* C2 as stated: without an API key a submission makes no remote call and
\* leaves the history and the handle as they were.
C2_NoKeySessionUnchanged ==
    [][(~api_key /\ Submitting) =>
            /\ calls' = << >>
            /\ threads' = threads
            /\ run' = run
            /\ thread_id' = thread_id
            /\ messages' = messages]_vars

\* C2 amended: without an API key a submission makes no remote call and
\* leaves the handle as it was; the history gains the user entry followed by
\* an assistant entry whose content is the empty string.
C2_NoKeyNoCallHandleKept ==
    [][(~api_key /\ Submitting) =>
            /\ calls' = << >>
            /\ threads' = threads
            /\ run' = run
            /\ thread_id' = thread_id
            /\ pc' = "idle"
            /\ messages' = messages \o <<Message("user", user_input'),
                                         Message("assistant", << >>)>>]_vars

C2_Witness ==
    /\ ~api_key
    /\ Len(submissions) = 2
    /\ pc = "idle"
    /\ Len(messages) = 4

\* C3: when ensure_thread finds no handle and a non-empty history it creates
\* one handle and submits to it every stored user message, in history order,
\* and no assistant message, all before call_assistant goes on.
C3_ReplayUserOnly ==
    (pc = "poll" /\ calls # << >> /\ calls[1].op = "threads.create") =>
        LET byEnsure == SelectSeq(calls, LAMBDA c : c.by = "ensure_thread")
            replay == Tail(byEnsure)
            users == UserMessages(messages)
        IN  /\ Cardinality({i \in 1..Len(calls) : calls[i].op = "threads.create"}) = 1
            /\ IsPrefix(byEnsure, calls)
            /\ calls[1].thread = thread_id
            /\ Len(replay) = Len(users)
            /\ \A i \in 1..Len(replay) :
                  replay[i] = Call("ensure_thread", "messages.create", thread_id,
                                   users[i].content)
            /\ \A i \in 1..Len(replay) :
                  \A j \in 1..Len(messages) :
                      messages[j].role = "assistant" =>
                          replay[i].content # messages[j].content
            /\ run.status = "queued" =>
                  /\ Len(threads[thread_id]) = Len(users) + 1
                  /\ \A i \in 1..Len(users) :
                        threads[thread_id][i] =
                            Message("user", <<TextBlock(users[i].content)>>)

C3_Witness ==
    /\ pc = "poll"
    /\ calls # << >>
    /\ calls[1].op = "threads.create"
    /\ Len(messages) = 3
    /\ Len(UserMessages(messages)) = 2
    /\ \E j \in 1..Len(messages) : messages[j].role = "assistant"
    /\ messages[1].content # messages[3].content

\* C4: a session holds at most one handle; it is created only by the first
\* send that reaches ensure_thread, never changes afterwards, and every later
\* send uses it without creating another.
C4_HandleStable ==
    /\ [](Len(threads) <= 1 /\ (thread_id = NoThread <=> threads = << >>))
    /\ [][thread_id # NoThread =>
            thread_id' = thread_id /\ Len(threads') = Len(threads)]_vars
    /\ [][(thread_id = NoThread /\ thread_id' # NoThread) =>
            /\ api_key
            /\ Submitting
            /\ calls'[1].op = "threads.create"]_vars
    /\ [][(api_key /\ Submitting) =>
            /\ run'.thread = thread_id'
            /\ \A i \in 1..Len(calls') : calls'[i].thread = thread_id']_vars

C4_Witness ==
    /\ pc = "poll"
    /\ Len(submissions) = 2
    /\ thread_id # NoThread
    /\ Len(threads) = 1
    /\ messages[2] = Message("assistant", StatusMessage("expired"))
    /\ run = [thread |-> thread_id, status |-> "in_progress"]

C6_NonCompletedReported ==
    /\ []((pc = "idle" /\ run_status \in NonCompleted) =>
            /\ outcome = "returned"
            /\ \E i \in 1..Len(assistant_reply) : assistant_reply[i] = run_status
            /\ messages[Len(messages)] = Message("assistant", assistant_reply)
            /\ messages[Len(messages) - 1] = Message("user", user_input)
            /\ \A i \in 1..Len(calls) : calls[i].op # "messages.list")
    /\ [][(pc = "idle" /\ run_status \in NonCompleted /\ Submitting) =>
            /\ pc' = "poll"
            /\ thread_id' = thread_id
            /\ Len(threads') = Len(threads)
            /\ run' = [thread |-> thread_id, status |-> "queued"]
            /\ messages' = Append(messages, Message("user", user_input'))]_vars

C6_Witness ==
    /\ pc = "poll"
    /\ Len(messages) = 3
    /\ messages[2] = Message("assistant", StatusMessage("cancelled"))
    /\ run.status = "in_progress"

\* C7: when a run completes and no assistant message is on the handle,
\* call_assistant returns "(No assistant response)": not an empty value and
\* not the text of a user turn.
C7_PlaceholderWhenNoReply ==
    (/\ pc = "idle"
     /\ run_status = "completed"
     /\ Last(threads[thread_id]).role # "assistant") =>
        /\ outcome = "returned"
        /\ assistant_reply = NoResponse

\* the reply string C8 describes: one contribution per segment, in order,
\* separated by single spaces
RECURSIVE ClaimedReply(_)
ClaimedReply(content) ==
    LET piece == IF content[1].type = "text" THEN content[1].value ELSE <<"[Image]">>
    IN  IF Len(content) = 1 THEN piece
        ELSE piece \o <<" ">> \o ClaimedReply(Tail(content))

\* C8: when a run completes, the reply either variant returns is built from
\* all segments of the latest reply in order: text verbatim, any non-text
\* segment as the placeholder token, joined by single spaces; no segment is
\* dropped and a non-text segment does not make the send fail.
C8_ReplyJoinsAllSegments ==
    (/\ pc = "idle"
     /\ run_status = "completed"
     /\ Last(threads[thread_id]).role = "assistant") =>
        /\ outcome = "returned"
        /\ assistant_reply = ClaimedReply(Last(threads[thread_id]).content)

\* the "label: integer" items C9 speaks of
FirstIndex(t, c) ==
    IF \E i \in 1..Len(t) : t[i] = c
    THEN CHOOSE i \in 1..Len(t) : t[i] = c /\ \A j \in 1..(i - 1) : t[j] # c
    ELSE 0

RECURSIVE SplitOn(_, _)
SplitOn(t, c) ==
    LET k == FirstIndex(t, c)
    IN  IF k = 0 THEN <<t>>
        ELSE <<SubSeq(t, 1, k - 1)>> \o SplitOn(SubSeq(t, k + 1, Len(t)), c)

ItemLabel(item) == Strip(SubSeq(item, 1, FirstIndex(item, ":") - 1))

ItemDigits(item) == LStrip(SubSeq(item, FirstIndex(item, ":") + 1, Len(item)))

IsItem(item) ==
    /\ Cardinality({i \in 1..Len(item) : item[i] = ":"}) = 1
    /\ ItemLabel(item) # << >>
    /\ ItemDigits(item) # << >>
    /\ \A i \in 1..Len(ItemDigits(item)) : IsDigit(ItemDigits(item)[i])

IsItemList(t) == \A i \in 1..Len(SplitOn(t, ",")) : IsItem(SplitOn(t, ",")[i])

ClaimedRows(t) ==
    LET items == SplitOn(t, ",")
    IN  [i \in 1..Len(items) |-> <<ItemLabel(items[i]), ParseInt(ItemDigits(items[i]))>>]

\* C9: for a text of comma-separated "label: integer" items,
\* extract_chart_data returns one row per item, in order, with the item's
\* trimmed label and its integer.
C9_RowsMatchItems ==
    (rows.state # "pending" /\ IsItemList(text)) =>
        rows = [state |-> "data", data |-> ClaimedRows(text)]

\* C10: with an API key, every user submission is on the remote handle
\* exactly once: the user turns of the handle are the user entries of the
\* history, same count and same order.
C10_EachSubmissionOnce ==
    thread_id # NoThread =>
        LET turns == SelectSeq(threads[thread_id], LAMBDA m : m.role = "user")
            users == UserMessages(messages)
        IN  /\ Len(turns) = Len(users)
            /\ \A i \in 1..Len(users) :
                  \/ turns[i].content = <<TextBlock(users[i].content)>>
                  \/ turns[i].content = <<TextBlock(Prompt(variant, users[i].content))>>

====
